---- MODULE Spec2Model ----
(***************************************************************************)
(* merge-translations: the merge of several translation files into one     *)
(* document (main of the option-taking variant, src/unnamed/part_000).     *)
(* The program is modelled as the steps of main: the loop over the paths   *)
(* (load and parse one file), the loop over the items of the file (fold    *)
(* one item into allItems), and the final emit of the output document.     *)
(* src/src/index.ts is the same loop with no options: it behaves as        *)
(* ignoreErrors = TRUE, sort = FALSE, mergeContext = FALSE.                *)
(***************************************************************************)
EXTENDS Integers, Sequences, FiniteSets, TLC

\* ---------------------------------------------------------------- bounds
MaxFiles == 2
MaxEntries == 3

\* ---------------------------------------------------------------- inputs
\* Key strings: two canonical array indices ("10", "2"), two plain keys
\* whose locale order differs from their code-unit order ("a", "B"), and a
\* name that Object.prototype defines ("constructor").
Keys == {"10", "2", "a", "B", "constructor"}
Values == {"Hello", "Bye"}
Contexts == {"", "greeting", "farewell"}

\* An item of a parsed file: the context field may be absent from the JSON.
ItemsWithContext == [key : Keys, value : Values, context : Contexts]
ItemsWithoutContext == [key : Keys, value : Values]

\* The input domains a run draws its items from: every key with one value;
\* two keys with every value; or one key, whose first value comes with
\* every context or with none and whose second value comes with a context.
PoolOfKeys ==
    {it \in ItemsWithContext : it.value = "Hello" /\ it.context = ""}
PoolOfValues ==
    {it \in ItemsWithContext : it.key \in {"2", "a"} /\ it.context = ""}
PoolOfContexts ==
    {it \in ItemsWithContext \cup ItemsWithoutContext :
        it.key = "a" /\ it.value = "Hello"}
        \cup {[key |-> "a", value |-> "Bye", context |-> "greeting"]}
Pools == {PoolOfKeys, PoolOfValues, PoolOfContexts}

VARIABLES
    ignoreErrors,   \* program.ignoreErrors
    sort,           \* program.sort
    mergeContext,   \* program.mergeContext
    pool,           \* the input domain of this run
    paths,          \* the files read so far: [ok, translations] per path
    pc,             \* "load" | "fold" | "done" | "aborted"
    allItems,       \* the Record<string, TranslationItem> of main
    stdout,         \* documents written to process.stdout
    stderr,         \* diagnostics written to process.stderr
    exitCode        \* -1 while running, then the process exit code

vars == <<ignoreErrors, sort, mergeContext, pool, paths, pc, allItems,
          stdout, stderr, exitCode>>

\* ------------------------------------------------------- JS object model
\* A JS object is the sequence of its own properties in creation order.
Prop(name, val) == [name |-> name, val |-> val]

\* Names that every {} inherits from Object.prototype.
ObjectPrototypeKeys ==
    {"constructor", "toString", "valueOf", "hasOwnProperty", "__proto__"}

JsUndefined == "undefined"

OwnIndex(obj, name) ==
    IF \E i \in 1..Len(obj) : obj[i].name = name
    THEN CHOOSE i \in 1..Len(obj) : obj[i].name = name
    ELSE 0

\* if (allItems[key]): an own property, or one found on the prototype.
HasEntry(obj, key) ==
    OwnIndex(obj, key) # 0 \/ key \in ObjectPrototypeKeys

\* allItems[key].value
ExistingValue(obj, key) ==
    IF OwnIndex(obj, key) # 0
    THEN obj[OwnIndex(obj, key)].val.value
    ELSE JsUndefined

\* allItems[key] = item
Put(obj, key, item) ==
    IF OwnIndex(obj, key) # 0
    THEN [obj EXCEPT ![OwnIndex(obj, key)] = Prop(key, item)]
    ELSE Append(obj, Prop(key, item))

\* The canonical array index a property name denotes, or -1.
ArrayIndex(name) ==
    CASE name = "0" -> 0
      [] name = "1" -> 1
      [] name = "2" -> 2
      [] name = "10" -> 10
      [] OTHER -> -1

RECURSIVE AscendingByIndex(_)
AscendingByIndex(props) ==
    IF props = {} THEN <<>>
    ELSE LET m == CHOOSE p \in props :
                    \A q \in props : ArrayIndex(p.name) <= ArrayIndex(q.name)
         IN <<m.val>> \o AscendingByIndex(props \ {m})

RECURSIVE ValsOf(_)
ValsOf(props) ==
    IF props = <<>> THEN <<>> ELSE <<Head(props).val>> \o ValsOf(Tail(props))

IsIndexProp(p) == ArrayIndex(p.name) >= 0
IsStringProp(p) == ArrayIndex(p.name) < 0

RECURSIVE Reversed(_)
Reversed(seq) ==
    IF seq = <<>> THEN <<>> ELSE Append(Reversed(Tail(seq)), Head(seq))

\* Object.values listing the newest property first.
ObjectValuesNewestFirst(obj) == Reversed(ValsOf(obj))

\* Object.values(allItems): array-index names ascending, then the other
\* names in creation order.
ObjectValues(obj) ==
    AscendingByIndex({obj[i] : i \in {j \in 1..Len(obj) : IsIndexProp(obj[j])}})
        \o ValsOf(SelectSeq(obj, IsStringProp))

\* --------------------------------------------------------------- sorting
\* The collation rank of the key strings of the model: digits before
\* letters, letters by primary strength ("a" before "B").
LocaleRank(k) ==
    CASE k = "0" -> 0
      [] k = "1" -> 1
      [] k = "10" -> 2
      [] k = "2" -> 3
      [] k = "a" -> 4
      [] k = "B" -> 5
      [] k = "constructor" -> 6
      [] OTHER -> 7

\* a.localeCompare(b)
LocaleCompare(a, b) ==
    IF LocaleRank(a) < LocaleRank(b) THEN -1
    ELSE IF LocaleRank(a) > LocaleRank(b) THEN 1 ELSE 0

RECURSIVE InsertSorted(_, _)
InsertSorted(sorted, x) ==
    IF sorted = <<>> THEN <<x>>
    ELSE IF LocaleCompare(sorted[Len(sorted)].key, x.key) <= 0
         THEN Append(sorted, x)
         ELSE Append(InsertSorted(SubSeq(sorted, 1, Len(sorted) - 1), x),
                     sorted[Len(sorted)])

RECURSIVE SortedByKey(_)
SortedByKey(ts) ==
    IF ts = <<>> THEN <<>>
    ELSE InsertSorted(SortedByKey(SubSeq(ts, 1, Len(ts) - 1)), ts[Len(ts)])

\* sortTranslations leaving the array as it is.
sortTranslationsSkipped(translations) == translations

\* translations.sort((a, b) => a.key.localeCompare(b.key)), a stable sort
sortTranslations(translations) == SortedByKey(translations)

\* ----------------------------------------------------------- diagnostics
Diag(kind, key, v1, v2, context, file) ==
    [kind |-> kind, key |-> key, v1 |-> v1, v2 |-> v2,
     context |-> context, file |-> file, fatal |-> FALSE]

\* main().catch: "Unhandled exception: <err>"
Unhandled(err) == [err EXCEPT !.fatal = TRUE]

\* ------------------------------------------------------------- the merge
HasContext(item) == "context" \in DOMAIN item

\* The truthiness of item.context: an absent field and "" are falsy.
ContextTruthy(item) == HasContext(item) /\ item.context # ""

\* allItems[key].context = item.context
SetContext(item, context) ==
    [key |-> item.key, value |-> item.value, context |-> context]

\* The state the loops of main carry: the merged object, the diagnostics
\* written so far, and the error thrown (none, or one).
LoopState(obj, err, thrown) ==
    [allItems |-> obj, stderr |-> err, thrown |-> thrown]

\* DuplicateBranch without the test of the existing context: a later
\* non-empty context overwrites the one already stored.
DuplicateBranchOverwrites(st, item) ==
    LET i == OwnIndex(st.allItems, item.key)
        existing == st.allItems[i].val
    IN IF mergeContext /\ ContextTruthy(item)
       THEN [st EXCEPT
               !.allItems[i].val = SetContext(existing, item.context),
               !.stderr = Append(@, Diag("pulled", item.key, "", "",
                                         item.context, 0))]
       ELSE [st EXCEPT
               !.stderr = Append(@, Diag("skip", item.key, "", "", "", 0))]

\* Same key, same value.
DuplicateBranch(st, item) ==
    LET i == OwnIndex(st.allItems, item.key)
        existing == st.allItems[i].val
    IN IF mergeContext /\ ~ContextTruthy(existing) /\ ContextTruthy(item)
       THEN [st EXCEPT
               !.allItems[i].val = SetContext(existing, item.context),
               !.stderr = Append(@, Diag("pulled", item.key, "", "",
                                         item.context, 0))]
       ELSE [st EXCEPT
               !.stderr = Append(@, Diag("skip", item.key, "", "", "", 0))]

\* ConflictBranch without its throw: the conflict is only ever a warning.
ConflictBranchNeverThrows(st, item, path) ==
    [st EXCEPT !.stderr =
        Append(@, Diag("conflict", item.key,
                       ExistingValue(st.allItems, item.key), item.value,
                       "", path))]

\* ConflictBranch storing the new item: the last-seen value wins.
ConflictBranchLastWins(st, item, path) ==
    LET str == Diag("conflict", item.key,
                    ExistingValue(st.allItems, item.key), item.value, "", path)
    IN IF ~ignoreErrors
       THEN [st EXCEPT !.thrown = <<str>>]
       ELSE [st EXCEPT !.stderr = Append(@, str),
                       !.allItems = Put(@, item.key, item)]

\* Same key, different value.
ConflictBranch(st, item, path) ==
    LET str == Diag("conflict", item.key,
                    ExistingValue(st.allItems, item.key), item.value, "", path)
    IN IF ~ignoreErrors
       THEN [st EXCEPT !.thrown = <<str>>]
       ELSE [st EXCEPT !.stderr = Append(@, str)]

\* The body of the loop over the items of one file.
FoldItem(st, item, path) ==
    IF HasEntry(st.allItems, item.key)
    THEN IF ExistingValue(st.allItems, item.key) = item.value
         THEN DuplicateBranch(st, item)
         ELSE ConflictBranch(st, item, path)
    ELSE [st EXCEPT !.allItems = Put(@, item.key, item)]

\* loadAndParse that never rejects: a failure is only ever a warning.
loadAndParseNeverRejects(ok, path) ==
    IF ok
    THEN [parsed |-> TRUE, rejected |-> <<>>, warnings |-> <<>>]
    ELSE [parsed |-> FALSE, rejected |-> <<>>,
          warnings |-> <<Diag("load", "", "", "", "", path)>>]

\* loadAndParse: the promise resolves to the parsed document, resolves to
\* undefined after a warning, or rejects.
loadAndParse(ok, path) ==
    IF ok
    THEN [parsed |-> TRUE, rejected |-> <<>>, warnings |-> <<>>]
    ELSE IF ~ignoreErrors
         THEN [parsed |-> FALSE, warnings |-> <<>>,
               rejected |-> <<Diag("load", "", "", "", "", path)>>]
         ELSE [parsed |-> FALSE, rejected |-> <<>>,
               warnings |-> <<Diag("load", "", "", "", "", path)>>]

\* The translations of the final object.
Translations(obj) ==
    IF sort THEN sortTranslations(ObjectValues(obj)) ELSE ObjectValues(obj)

FinalObject(obj) == [language |-> "EN", translations |-> Translations(obj)]

\* ------------------------------------------------------------ the machine
File(ok, translations) == [ok |-> ok, translations |-> translations]

RECURSIVE TotalEntries(_)
TotalEntries(files) ==
    IF files = <<>> THEN 0
    ELSE Len(Head(files).translations) + TotalEntries(Tail(files))

Init ==
    /\ ignoreErrors \in BOOLEAN
    /\ sort \in BOOLEAN
    /\ mergeContext \in BOOLEAN
    /\ pool \in Pools
    /\ paths = <<>>
    /\ pc = "load"
    /\ allItems = <<>>
    /\ stdout = <<>>
    /\ stderr = <<>>
    /\ exitCode = -1

\* The next path of the loop: await loadAndParse(path, ignoreErrors).
Load ==
    /\ pc = "load"
    /\ Len(paths) < MaxFiles
    /\ \E ok \in BOOLEAN :
        LET path == Len(paths) + 1
            r == loadAndParse(ok, path)
        IN /\ paths' = Append(paths, File(ok, <<>>))
           /\ IF r.rejected # <<>>
              THEN /\ pc' = "aborted"
                   /\ stderr' = Append(stderr, Unhandled(r.rejected[1]))
                   /\ exitCode' = 1
              ELSE /\ pc' = IF r.parsed THEN "fold" ELSE "load"
                   /\ stderr' = stderr \o r.warnings
                   /\ exitCode' = exitCode
    /\ UNCHANGED <<ignoreErrors, sort, mergeContext, pool, allItems, stdout>>

\* The next item of the file being folded.
Fold ==
    /\ pc = "fold"
    /\ TotalEntries(paths) < MaxEntries
    /\ \E item \in pool :
        LET path == Len(paths)
            st == FoldItem(LoopState(allItems, stderr, <<>>), item, path)
        IN /\ paths' = [paths EXCEPT ![path].translations = Append(@, item)]
           /\ allItems' = st.allItems
           /\ IF st.thrown # <<>>
              THEN /\ pc' = "aborted"
                   /\ stderr' = Append(st.stderr, Unhandled(st.thrown[1]))
                   /\ exitCode' = 1
              ELSE /\ pc' = "fold"
                   /\ stderr' = st.stderr
                   /\ exitCode' = exitCode
    /\ UNCHANGED <<ignoreErrors, sort, mergeContext, pool, stdout>>

\* The items of the file are exhausted.
EndOfFile ==
    /\ pc = "fold"
    /\ pc' = "load"
    /\ UNCHANGED <<ignoreErrors, sort, mergeContext, pool, paths, allItems,
                   stdout, stderr, exitCode>>

\* The paths are exhausted: sort, wrap and print the final object.
Emit ==
    /\ pc = "load"
    /\ pc' = "done"
    /\ stdout' = Append(stdout, FinalObject(allItems))
    /\ exitCode' = 0
    /\ UNCHANGED <<ignoreErrors, sort, mergeContext, pool, paths, allItems,
                   stderr>>

Next == Load \/ Fold \/ EndOfFile \/ Emit

Spec == Init /\ [][Next]_vars

\* ------------------------------------------------- main as a pure function
RECURSIVE FoldItems(_, _, _)
FoldItems(st, items, path) ==
    IF items = <<>> \/ st.thrown # <<>> THEN st
    ELSE FoldItems(FoldItem(st, Head(items), path), Tail(items), path)

RECURSIVE FoldPaths(_, _, _)
FoldPaths(st, files, path) ==
    IF files = <<>> \/ st.thrown # <<>> THEN st
    ELSE LET r == loadAndParse(Head(files).ok, path)
             loaded == [st EXCEPT !.thrown = r.rejected,
                                  !.stderr = @ \o r.warnings]
             items == IF r.parsed THEN Head(files).translations ELSE <<>>
         IN FoldPaths(FoldItems(loaded, items, path), Tail(files), path + 1)

\* The whole run of main on the files at the given paths.
main(files) ==
    LET st == FoldPaths(LoopState(<<>>, <<>>, <<>>), files, 1)
    IN IF st.thrown # <<>>
       THEN [stdout |-> <<>>, exitCode |-> 1,
             stderr |-> Append(st.stderr, Unhandled(st.thrown[1]))]
       ELSE [stdout |-> <<FinalObject(st.allItems)>>, exitCode |-> 0,
             stderr |-> st.stderr]

\* ------------------------------------------------ the input, as it was read
Entry(item, file) == [item |-> item, file |-> file]

RECURSIVE Tagged(_, _)
Tagged(items, file) ==
    IF items = <<>> THEN <<>>
    ELSE <<Entry(Head(items), file)>> \o Tagged(Tail(items), file)

RECURSIVE FlatFrom(_, _)
FlatFrom(files, path) ==
    IF files = <<>> THEN <<>>
    ELSE Tagged(Head(files).translations, path)
            \o FlatFrom(Tail(files), path + 1)

\* The entries folded so far, in fold order, each with the path of its file.
Folded == FlatFrom(paths, 1)

Occurrences(flat, key) == {i \in 1..Len(flat) : flat[i].item.key = key}

FirstIndex(flat, key) ==
    CHOOSE i \in 1..Len(flat) :
        /\ flat[i].item.key = key
        /\ \A j \in 1..(i - 1) : flat[j].item.key # key

FirstItem(flat, key) == flat[FirstIndex(flat, key)].item

\* Entry i has the key of an earlier entry and not the first-seen value.
ConflictsAt(flat, i) ==
    /\ FirstIndex(flat, flat[i].item.key) < i
    /\ FirstItem(flat, flat[i].item.key).value # flat[i].item.value

KeysOf(flat) == {flat[i].item.key : i \in 1..Len(flat)}

FailedPaths == {i \in 1..Len(paths) : ~paths[i].ok}

OutputOf(out) == out[1].translations

\* An absent context reads as the empty context.
ContextOrEmpty(item) == IF HasContext(item) THEN item.context ELSE ""

\* ---------------------------------------------------------------- claims
\* C1: in strict mode the merge aborts at the first entry whose key was
\* already folded with a different value: the error names the key, the
\* first-seen value, the new value and the file of the new value, nothing
\* is written to stdout and the exit code is non-zero.
C1_StrictConflictAborts ==
    ~ignoreErrors =>
        LET flat == Folded
        IN \A i \in 1..Len(flat) :
            ConflictsAt(flat, i) =>
                /\ i = Len(flat)
                /\ pc = "aborted"
                /\ stdout = <<>>
                /\ exitCode = 1
                /\ stderr # <<>>
                /\ stderr[Len(stderr)] =
                     Unhandled(Diag("conflict", flat[i].item.key,
                                    FirstItem(flat, flat[i].item.key).value,
                                    flat[i].item.value, "", flat[i].file))

\* A strict run that met a conflict in its second file.
C1_Witness ==
    /\ ~ignoreErrors
    /\ pc = "aborted"
    /\ Len(Folded) >= 2
    /\ ConflictsAt(Folded, Len(Folded))
    /\ Folded[Len(Folded)].file = 2
    /\ OwnIndex(allItems, Folded[Len(Folded)].item.key) # 0

\* C2: in lenient mode every stored value is the value of the key's first
\* occurrence; a later entry with another value leaves the collection as it
\* was and produces a diagnostic, and the merge completes with a document.
C2_LenientFirstValueWins ==
    ignoreErrors =>
        LET flat == Folded
        IN /\ pc # "aborted"
           /\ exitCode # 1
           /\ \A i \in 1..Len(allItems) :
                /\ allItems[i].name \in KeysOf(flat)
                /\ allItems[i].val.value = FirstItem(flat, allItems[i].name).value
           /\ \A i \in 1..Len(flat) :
                ConflictsAt(flat, i) =>
                   \E d \in 1..Len(stderr) :
                       stderr[d] = Diag("conflict", flat[i].item.key,
                                        FirstItem(flat, flat[i].item.key).value,
                                        flat[i].item.value, "", flat[i].file)
           /\ pc = "done" =>
                /\ Len(stdout) = 1
                /\ \A i \in 1..Len(OutputOf(stdout)) :
                     LET e == OutputOf(stdout)[i]
                     IN e.value = FirstItem(flat, e.key).value

\* A completed lenient run that met a conflict on a stored key.
C2_Witness ==
    /\ ignoreErrors
    /\ pc = "done"
    /\ \E i \in 1..Len(Folded) :
         /\ ConflictsAt(Folded, i)
         /\ OwnIndex(allItems, Folded[i].item.key) # 0
         /\ i < Len(Folded)

\* The context the merge owes a key: the first occurrence's when non-empty,
\* else the first non-empty one among the later occurrences that carry the
\* first-seen value, else empty.
ExpectedContext(flat, key) ==
    LET first == FirstItem(flat, key)
        later == {i \in Occurrences(flat, key) :
                    /\ i > FirstIndex(flat, key)
                    /\ flat[i].item.value = first.value
                    /\ ContextTruthy(flat[i].item)}
    IN IF ContextTruthy(first) THEN first.context
       ELSE IF later = {} THEN ""
       ELSE flat[CHOOSE i \in later : \A j \in later : i <= j].item.context

\* C3: in a completed merge with mergeContext, the context of every output
\* key is the expected context (an absent context field counting as empty);
\* without mergeContext the output entry is the key's first occurrence.
C3_ContextBackfill ==
    pc = "done" =>
        LET flat == Folded
            out == OutputOf(stdout)
        IN \A i \in 1..Len(out) :
            LET e == out[i]
            IN /\ e.key \in KeysOf(flat)
               /\ IF mergeContext
                  THEN ContextOrEmpty(e) = ExpectedContext(flat, e.key)
                  ELSE e = FirstItem(flat, e.key)

\* A completed run where an empty first context was followed by an entry of
\* another value with a context and then by an equal-value entry with a
\* different context, which the output carries.
C3_Witness ==
    /\ pc = "done"
    /\ mergeContext
    /\ Len(Folded) = 3
    /\ Len(OutputOf(stdout)) = 1
    /\ ~ContextTruthy(Folded[1].item)
    /\ ConflictsAt(Folded, 2)
    /\ ContextTruthy(Folded[2].item)
    /\ ContextTruthy(Folded[3].item)
    /\ Folded[3].item.context # Folded[2].item.context
    /\ OutputOf(stdout)[1].context = Folded[3].item.context

\* C4 (as claimed): when all files load and every key occurs in exactly one
\* entry, there is no conflict error or diagnostic and the output holds
\* every input entry unchanged.
C4_DisjointKeysUnion ==
    ( /\ FailedPaths = {}
      /\ \A k \in KeysOf(Folded) : Cardinality(Occurrences(Folded, k)) = 1 )
    =>
        /\ pc # "aborted"
        /\ \A d \in 1..Len(stderr) : stderr[d].kind # "conflict"
        /\ pc = "done" =>
             /\ Len(OutputOf(stdout)) = Len(Folded)
             /\ {OutputOf(stdout)[i] : i \in 1..Len(OutputOf(stdout))}
                  = {Folded[i].item : i \in 1..Len(Folded)}

\* C5 (as claimed): the collection never holds two entries of one key, and
\* a key all of whose entries carry one value has exactly one output entry.
C5_OneEntryPerKey ==
    /\ \A i, j \in 1..Len(allItems) :
         allItems[i].name = allItems[j].name => i = j
    /\ pc = "done" =>
         \A k \in KeysOf(Folded) :
            LET hits == {i \in 1..Len(OutputOf(stdout)) :
                            OutputOf(stdout)[i].key = k}
            IN /\ Cardinality(hits) <= 1
               /\ (\A i \in Occurrences(Folded, k) :
                      Folded[i].item.value = FirstItem(Folded, k).value)
                    => Cardinality(hits) = 1

\* C6 (as claimed): without sorting, the output entries are in the order in
\* which their keys first occur in the fold.
C6_UnsortedKeepsFirstSeenOrder ==
    (pc = "done" /\ ~sort) =>
        \A i, j \in 1..Len(OutputOf(stdout)) :
            i < j =>
                FirstIndex(Folded, OutputOf(stdout)[i].key)
                    < FirstIndex(Folded, OutputOf(stdout)[j].key)

\* C7: with sorting, the output keys are non-decreasing in the collation
\* order and the output entries are exactly the entries of the collection.
C7_SortedOutput ==
    (pc = "done" /\ sort) =>
        LET out == OutputOf(stdout)
        IN /\ \A i \in 1..(Len(out) - 1) :
                LocaleRank(out[i].key) <= LocaleRank(out[i + 1].key)
           /\ Len(out) = Len(allItems)
           /\ {out[i] : i \in 1..Len(out)}
                = {allItems[i].val : i \in 1..Len(allItems)}

\* A sorted output of three entries that is neither the creation order nor
\* the Object.values order of the collection.
C7_Witness ==
    /\ pc = "done"
    /\ sort
    /\ Len(OutputOf(stdout)) = 3
    /\ OutputOf(stdout) # ValsOf(allItems)
    /\ OutputOf(stdout) # ObjectValues(allItems)

IsLoaded(file) == file.ok

\* C8: a failed load aborts a strict run at that file, with no document
\* and exit code 1; a lenient run warns, takes no entry from the file, and
\* prints what the same paths without the failed ones produce.
C8_LoadFailure ==
    /\ ~ignoreErrors =>
         \A i \in FailedPaths :
            /\ i = Len(paths)
            /\ pc = "aborted"
            /\ stdout = <<>>
            /\ exitCode = 1
            /\ stderr[Len(stderr)] = Unhandled(Diag("load", "", "", "", "", i))
    /\ ignoreErrors =>
         /\ \A i \in FailedPaths :
              /\ \E d \in 1..Len(stderr) :
                    stderr[d] = Diag("load", "", "", "", "", i)
              /\ paths[i].translations = <<>>
         /\ pc = "done" => stdout = main(SelectSeq(paths, IsLoaded)).stdout

\* A completed lenient run whose first file failed and whose second file
\* gave entries.
C8_Witness ==
    /\ ignoreErrors
    /\ pc = "done"
    /\ Len(paths) = 2
    /\ ~paths[1].ok
    /\ Len(paths[2].translations) >= 2
    /\ Len(OutputOf(stdout)) >= 2

\* C9 (as claimed): an entry read without a context field, and not
\* backfilled, is written with a context field holding the empty string.
C9_AbsentContextWrittenEmpty ==
    pc = "done" =>
        \A i \in 1..Len(OutputOf(stdout)) :
            LET e == OutputOf(stdout)[i]
            IN ( /\ ~HasContext(FirstItem(Folded, e.key))
                 /\ ~ContextTruthy(e) )
               => (HasContext(e) /\ e.context = "")

\* C10: merging the output document alone, under the same options, gives
\* the same document and no diagnostic.
C10_IdempotentOnOutput ==
    pc = "done" =>
        LET D == stdout[1]
            again == main(<<File(TRUE, D.translations)>>)
        IN /\ again.stdout = <<D>>
           /\ again.stderr = <<>>
           /\ again.exitCode = 0

\* A completed run that merged a duplicate and printed at least two entries,
\* not in the order in which they were read.
C10_Witness ==
    /\ pc = "done"
    /\ Len(OutputOf(stdout)) >= 2
    /\ Len(Folded) > Len(OutputOf(stdout))
    /\ OutputOf(stdout) # ValsOf(allItems)

====
